---- MODULE Spec2Model ----
(***************************************************************************)
(* A model of scan_file.py: the .gitignore loader, the ignore matcher, the *)
(* normalized-glob match and the directory scan that drives them.          *)
(*                                                                         *)
(* Strings are sequences of one-character strings, so that prefix, suffix, *)
(* substring, strip and split are computed the way Python computes them.   *)
(***************************************************************************)
EXTENDS Integers, Sequences, FiniteSets, TLC

VARIABLES
  \* fnmatch_path: its two arguments and its return value
  fm_path, fm_pattern, fm_result,
  \* load_gitignore_patterns: the file <root>/.gitignore and the return value
  cfg_exists, cfg_lines, cfg_failAt, ld_result,
  \* should_ignore: its arguments, the environment it reads, its outcome
  si_path, si_patterns, si_root, si_isdir, si_cwd, si_result,
  \* scan_directory_simple: the tree scanned and the position of the walk
  sc_root, sc_tree, sc_pc, sc_patterns, sc_stack, sc_visited, sc_tested,
  sc_ignoredDirs, sc_emitted, sc_headers, sc_fileCount, sc_ignoredCount

fmVars == <<fm_path, fm_pattern, fm_result>>
ldVars == <<cfg_exists, cfg_lines, cfg_failAt, ld_result>>
siVars == <<si_path, si_patterns, si_root, si_isdir, si_cwd, si_result>>
scVars == <<sc_root, sc_tree, sc_pc, sc_patterns, sc_stack, sc_visited,
            sc_tested, sc_ignoredDirs, sc_emitted, sc_headers, sc_fileCount,
            sc_ignoredCount>>
vars == <<fmVars, ldVars, siVars, scVars>>

\* The value of a result variable before the function has returned.
NoResult == [done |-> FALSE, raised |-> FALSE, value |-> FALSE]

-----------------------------------------------------------------------------
(* Bounds of the model.                                                    *)

\* longest generated candidate string handed to fnmatch_path
MaxCandLen == 3
\* longest generated pattern handed to fnmatch_path
MaxPatLen == 4
\* longest generated line of the .gitignore file
MaxLineLen == 2
\* most lines of a generated .gitignore file
MaxLines == 2
\* most components below the prefix of a generated path
MaxDepth == 2
\* most patterns in a generated pattern list
MaxPatterns == 2

-----------------------------------------------------------------------------
(* Python's str operations.                                                *)

\* all sequences over S of length at most n
SeqsUpTo(S, n) == UNION {[1..k -> S] : k \in 0..n}

\* s.startswith(p)
StartsWith(s, p) == Len(p) <= Len(s) /\ SubSeq(s, 1, Len(p)) = p

\* s.endswith(p)
EndsWith(s, p) ==
  Len(p) <= Len(s) /\ SubSeq(s, Len(s) - Len(p) + 1, Len(s)) = p

\* p in s
Contains(s, p) ==
  \E i \in 0..(Len(s) - Len(p)) : SubSeq(s, i + 1, i + Len(p)) = p

\* s.replace(a, b) for one-character a and b
Replace(s, a, b) == [i \in 1..Len(s) |-> IF s[i] = a THEN b ELSE s[i]]

\* s[n:]
DropFirst(s, n) == SubSeq(s, n + 1, Len(s))

\* the characters str.strip() removes
Whitespace == {" ", "\t", "\n", "\r"}

RECURSIVE LStrip(_)
LStrip(s) ==
  IF s # <<>> /\ Head(s) \in Whitespace THEN LStrip(Tail(s)) ELSE s

RECURSIVE RStrip(_)
RStrip(s) ==
  IF s # <<>> /\ s[Len(s)] \in Whitespace
  THEN RStrip(SubSeq(s, 1, Len(s) - 1))
  ELSE s

\* s.strip()
Strip(s) == RStrip(LStrip(s))

\* s.rstrip(c) for one character c
RECURSIVE RStripChar(_, _)
RStripChar(s, c) ==
  IF s # <<>> /\ s[Len(s)] = c
  THEN RStripChar(SubSeq(s, 1, Len(s) - 1), c)
  ELSE s

\* s.split(c) for one character c: the pieces between the occurrences of c
RECURSIVE SplitAcc(_, _, _)
SplitAcc(s, c, cur) ==
  IF s = <<>> THEN <<cur>>
  ELSE IF Head(s) = c THEN <<cur>> \o SplitAcc(Tail(s), c, <<>>)
  ELSE SplitAcc(Tail(s), c, Append(cur, Head(s)))

Split(s, c) == SplitAcc(s, c, <<>>)

\* c.join(parts) for one character c
RECURSIVE JoinWith(_, _)
JoinWith(parts, c) ==
  IF parts = <<>> THEN <<>>
  ELSE IF Len(parts) = 1 THEN parts[1]
  ELSE parts[1] \o <<c>> \o JoinWith(Tail(parts), c)

-----------------------------------------------------------------------------
(* fnmatch_path                                                            *)

StarSlash == <<"*", "/">>
StarStarSlash == <<"*", "*", "/">>

fnmatch_path_no_substring(path0, pattern0) ==
  LET path == Replace(path0, "\\", "/")
      pattern == Replace(pattern0, "\\", "/")
  IN  IF StartsWith(pattern, StarSlash)
      THEN LET p == DropFirst(pattern, 2)
           IN  EndsWith(path, p) \/ Contains(path, p)
      ELSE IF StartsWith(pattern, StarStarSlash)
      THEN LET p == DropFirst(pattern, 3)
           IN  Contains(path, p)
      ELSE \/ path = pattern
           \/ EndsWith(path, <<"/">> \o pattern)

fnmatch_path(path0, pattern0) ==
  LET path == Replace(path0, "\\", "/")
      pattern == Replace(pattern0, "\\", "/")
  IN  IF StartsWith(pattern, StarSlash)
      THEN LET p == DropFirst(pattern, 2)
           IN  EndsWith(path, p) \/ Contains(path, p)
      ELSE IF StartsWith(pattern, StarStarSlash)
      THEN LET p == DropFirst(pattern, 3)
           IN  Contains(path, p)
      ELSE \/ path = pattern
           \/ EndsWith(path, <<"/">> \o pattern)
           \/ Contains(path, pattern)

-----------------------------------------------------------------------------
(* load_gitignore_patterns                                                 *)

\* one iteration of "for line in f": the line as read ends with its newline
ParseLine_comment_before_strip(patterns, content) ==
  LET raw == content \o <<"\n">>
      line == Strip(raw)
  IN  IF line # <<>> /\ ~StartsWith(raw, <<"#">>)
      THEN Append(patterns, line)
      ELSE patterns

ParseLine(patterns, content) ==
  LET line == Strip(content \o <<"\n">>)
  IN  IF line # <<>> /\ ~StartsWith(line, <<"#">>)
      THEN Append(patterns, line)
      ELSE patterns

\* the loop over the first n lines of the file
RECURSIVE ParseLines(_, _)
ParseLines(lines, n) ==
  IF n = 0 THEN <<>> ELSE ParseLine(ParseLines(lines, n - 1), lines[n])

\* failAt = -1: every read succeeds.  failAt = k >= 0: open() or the read
\* that follows the k-th line raises; the handler prints a warning and the
\* function goes on to "return patterns".
load_gitignore_patterns(exists, lines, failAt) ==
  IF ~exists THEN <<>>
  ELSE IF failAt >= 0 /\ failAt <= Len(lines) THEN ParseLines(lines, failAt)
  ELSE ParseLines(lines, Len(lines))

-----------------------------------------------------------------------------
(* The os.path functions should_ignore calls (POSIX: os.sep is "/").       *)

Sep == <<"/">>
CurDir == <<".">>
ParDir == <<".", ".">>
DotGit == <<".", "g", "i", "t">>

\* The process's working directory: ok = FALSE when it has been removed, so
\* that os.getcwd() raises FileNotFoundError.
CwdGone == [ok |-> FALSE, path |-> <<>>]

\* os.path.isabs(path)
IsAbs(path) == StartsWith(path, Sep)

\* the comps of normpath: "" and "." are dropped, ".." removes the component
\* before it; the path is absolute, so a ".." at the top is dropped
RECURSIVE NormComps(_, _)
NormComps(comps, acc) ==
  IF comps = <<>> THEN acc
  ELSE LET c == Head(comps)
       IN  IF c = <<>> \/ c = CurDir THEN NormComps(Tail(comps), acc)
           ELSE IF c # ParDir THEN NormComps(Tail(comps), Append(acc, c))
           ELSE IF acc # <<>>
           THEN NormComps(Tail(comps), SubSeq(acc, 1, Len(acc) - 1))
           ELSE NormComps(Tail(comps), acc)

\* os.path.abspath(path) raises when path is relative and the cwd is gone
AbsPathRaises(path, cwd) == ~IsAbs(path) /\ ~cwd.ok

\* the components of os.path.abspath(path)
AbsComps(path, cwd) ==
  IF IsAbs(path) THEN NormComps(Split(path, "/"), <<>>)
  ELSE NormComps(Split(cwd.path \o Sep \o path, "/"), <<>>)

\* len(commonprefix([a, b]))
RECURSIVE CommonLen(_, _)
CommonLen(a, b) ==
  IF a # <<>> /\ b # <<>> /\ Head(a) = Head(b)
  THEN 1 + CommonLen(Tail(a), Tail(b))
  ELSE 0

\* os.path.relpath(path, start) raises ValueError on an empty path, and
\* whatever os.getcwd() raises
RelPathRaises(path, start, cwd) ==
  \/ path = <<>>
  \/ AbsPathRaises(start, cwd)
  \/ AbsPathRaises(path, cwd)

\* os.path.relpath(path, start), when it does not raise
relpath(path, start, cwd) ==
  LET start_list == AbsComps(start, cwd)
      path_list == AbsComps(path, cwd)
      i == CommonLen(start_list, path_list)
      rel_list == [k \in 1..(Len(start_list) - i) |-> ParDir]
                    \o DropFirst(path_list, i)
  IN  IF rel_list = <<>> THEN CurDir ELSE JoinWith(rel_list, "/")

\* os.path.basename(path)
basename(path) == LET pieces == Split(path, "/") IN pieces[Len(pieces)]

\* os.path.join(a, b)
join(a, b) ==
  IF IsAbs(b) THEN b
  ELSE IF a = <<>> \/ EndsWith(a, Sep) THEN a \o b
  ELSE a \o Sep \o b

\* '.git' in Path(path).parts: the parts are the pieces between separators
\* (without the empty ones and the "." ones) and the leading "/"
HasGitPart_substring(path) == Contains(path, DotGit)

HasGitPart(path) ==
  LET pieces == Split(path, "/")
  IN  \E k \in 1..Len(pieces) : pieces[k] = DotGit

-----------------------------------------------------------------------------
(* should_ignore                                                           *)

\* the directory branch of the loop body, pattern being the stripped pattern
DirPatternMatches_no_isdir(pattern, rel_path, isdir) ==
  rel_path = pattern \/ StartsWith(rel_path, pattern \o Sep)

DirPatternMatches(pattern, rel_path, isdir) ==
  isdir /\ (rel_path = pattern \/ StartsWith(rel_path, pattern \o Sep))

\* one iteration of "for pattern in patterns": TRUE when it returns True
PatternMatches_no_else(pattern, path, rel_path, isdir) ==
  IF pattern = <<>> THEN FALSE
  ELSE LET stripped == RStripChar(pattern, "/")
       IN  \/ /\ EndsWith(pattern, Sep)
              /\ DirPatternMatches(stripped, rel_path, isdir)
           \/ fnmatch_path(rel_path, stripped)
           \/ fnmatch_path(basename(path), stripped)

PatternMatches(pattern, path, rel_path, isdir) ==
  IF pattern = <<>> THEN FALSE
  ELSE IF EndsWith(pattern, Sep)
  THEN DirPatternMatches(RStripChar(pattern, "/"), rel_path, isdir)
  ELSE \/ fnmatch_path(rel_path, pattern)
       \/ fnmatch_path(basename(path), pattern)

\* the loop over the patterns, leaving at the first match
RECURSIVE AnyPatternMatches(_, _, _, _)
AnyPatternMatches(patterns, path, rel_path, isdir) ==
  IF patterns = <<>> THEN FALSE
  ELSE IF PatternMatches(Head(patterns), path, rel_path, isdir) THEN TRUE
  ELSE AnyPatternMatches(Tail(patterns), path, rel_path, isdir)

\* what the statements after relpath return
AfterRelPath_root_first(path, patterns, rel_path, isdir) ==
  IF rel_path = CurDir THEN FALSE
  ELSE IF HasGitPart(path) THEN TRUE
  ELSE AnyPatternMatches(patterns, path, rel_path, isdir)

AfterRelPath(path, patterns, rel_path, isdir) ==
  IF HasGitPart(path) THEN TRUE
  ELSE IF rel_path = CurDir THEN FALSE
  ELSE AnyPatternMatches(patterns, path, rel_path, isdir)

\* should_ignore(path, patterns, root_dir), with what it reads of its
\* environment: os.path.isdir(path) and the working directory.  The outcome
\* says whether the call raised and, when it did not, what it returned.
should_ignore_no_handler(path, patterns, root_dir, isdir, cwd) ==
  IF RelPathRaises(path, root_dir, cwd)
  THEN [done |-> TRUE, raised |-> TRUE, value |-> FALSE]
  ELSE [done |-> TRUE, raised |-> FALSE,
        value |-> AfterRelPath(path, patterns, relpath(path, root_dir, cwd),
                               isdir)]

should_ignore(path, patterns, root_dir, isdir, cwd) ==
  IF RelPathRaises(path, root_dir, cwd)
  THEN [done |-> TRUE, raised |-> FALSE, value |-> FALSE]
  ELSE [done |-> TRUE, raised |-> FALSE,
        value |-> AfterRelPath(path, patterns, relpath(path, root_dir, cwd),
                               isdir)]

-----------------------------------------------------------------------------
(* scan_directory_simple                                                   *)

\* The names of the directory trees the scan is run on.
sA == <<"a">>
sB == <<"b">>
sF == <<"f">>
sSrc == <<"s", "r", "c">>
sHEAD == <<"H", "E", "A", "D">>
sGitignore == DotGit \o <<"i", "g", "n", "o", "r", "e">>
sNodeModules == <<"n", "o", "d", "e", "_", "m", "o", "d", "u", "l", "e", "s">>
sPkgJson == <<"p", "k", "g", ".", "j", "s", "o", "n">>
sAppTxt == <<"a", "p", "p", ".", "t", "x", "t">>

NoEntries == [dirs |-> {}, files |-> {}]

\* A tree gives, for the components of a directory below the root, the names
\* os.walk lists in it.
TreeE2E ==
  ( <<>> :> [dirs |-> {sNodeModules, sSrc, DotGit}, files |-> {sGitignore}]
    @@ <<sNodeModules>> :> [dirs |-> {}, files |-> {sPkgJson}]
    @@ <<sSrc>> :> [dirs |-> {}, files |-> {sAppTxt}]
    @@ <<DotGit>> :> [dirs |-> {}, files |-> {sHEAD}] )

TreeNested ==
  ( <<>> :> [dirs |-> {sA, sSrc}, files |-> {sGitignore, sF}]
    @@ <<sA>> :> [dirs |-> {sB}, files |-> {sF}]
    @@ <<sA, sB>> :> [dirs |-> {}, files |-> {sF}]
    @@ <<sSrc>> :> [dirs |-> {sB}, files |-> {sAppTxt}]
    @@ <<sSrc, sB>> :> NoEntries )

Trees == ("e2e" :> TreeE2E) @@ ("nested" :> TreeNested)

\* os.walk's listing of a directory
Listing(tree, key) == Trees[tree][key]

\* main() hands the scan an absolute root, so the working directory is not
\* consulted by relpath
ScanCwd == [ok |-> TRUE, path |-> Sep]

\* the first loop of the body: the names in dirs that should_ignore rejects
DirsToRemove_nothing(top, dirs, patterns, root_dir) == {}

DirsToRemove(top, dirs, patterns, root_dir) ==
  {d \in dirs : should_ignore(join(top, d), patterns, root_dir, TRUE,
                              ScanCwd).value}

\* the second loop of the body: dirs after dirs.remove(d) for each of them
PrunedDirs_none_removed(dirs, dirs_to_remove) == dirs

PrunedDirs(dirs, dirs_to_remove) == dirs \ dirs_to_remove

\* the names in files that the file loop skips
FilesIgnored(top, files, patterns, root_dir) ==
  {f \in files : should_ignore(join(top, f), patterns, root_dir, FALSE,
                               ScanCwd).value}

\* all orders in which os.walk may descend into a set of directories
Orders(S) ==
  {o \in [1..Cardinality(S) -> S] : \A i, j \in 1..Cardinality(S) :
                                       i # j => o[i] # o[j]}

\* scan_directory_simple up to the start of the walk: the patterns are
\* loaded, the report is opened and its title written
LoadPatterns ==
  /\ sc_pc = "start"
  /\ sc_patterns' = load_gitignore_patterns(cfg_exists, cfg_lines, cfg_failAt)
  /\ sc_stack' = <<[path |-> sc_root, key |-> <<>>]>>
  /\ sc_pc' = "walk"
  /\ UNCHANGED <<sc_root, sc_tree, sc_visited, sc_tested, sc_ignoredDirs,
                 sc_emitted, sc_headers, sc_fileCount, sc_ignoredCount>>
  /\ UNCHANGED <<fmVars, ldVars, siVars>>

\* one iteration of "for root, dirs, files in os.walk(root_dir)", and
\* os.walk's descent into what the iteration left in dirs
ScanDirectory ==
  /\ sc_pc = "walk"
  /\ sc_stack # <<>>
  /\ LET top == Head(sc_stack)
         entries == Listing(sc_tree, top.key)
         removed == DirsToRemove(top.path, entries.dirs, sc_patterns, sc_root)
         dirs == PrunedDirs(entries.dirs, removed)
         skipped == FilesIgnored(top.path, entries.files, sc_patterns,
                                 sc_root)
         kept == entries.files \ skipped
         rel_path == relpath(top.path, sc_root, ScanCwd)
     IN  /\ sc_visited' = sc_visited \cup {top.path}
         /\ sc_tested' = sc_tested
                           \cup {join(top.path, n) :
                                   n \in entries.dirs \cup entries.files}
         /\ sc_ignoredDirs' = sc_ignoredDirs
                                \cup {join(top.path, d) : d \in removed}
         /\ sc_ignoredCount' = sc_ignoredCount + Cardinality(removed)
                                 + Cardinality(skipped)
         /\ sc_headers' = IF rel_path # CurDir
                          THEN sc_headers \cup {rel_path}
                          ELSE sc_headers
         /\ sc_fileCount' = sc_fileCount + Cardinality(kept)
         /\ sc_emitted' = sc_emitted \cup {join(top.path, f) : f \in kept}
         /\ \E order \in Orders(dirs) :
              sc_stack' = [i \in 1..Len(order) |->
                             [path |-> join(top.path, order[i]),
                              key |-> Append(top.key, order[i])]]
                          \o Tail(sc_stack)
  /\ UNCHANGED <<sc_root, sc_tree, sc_pc, sc_patterns>>
  /\ UNCHANGED <<fmVars, ldVars, siVars>>

\* the walk is over: the summary is written and the counters are returned
WriteSummary ==
  /\ sc_pc = "walk"
  /\ sc_stack = <<>>
  /\ sc_pc' = "done"
  /\ UNCHANGED <<sc_root, sc_tree, sc_patterns, sc_stack, sc_visited,
                 sc_tested, sc_ignoredDirs, sc_emitted, sc_headers,
                 sc_fileCount, sc_ignoredCount>>
  /\ UNCHANGED <<fmVars, ldVars, siVars>>

-----------------------------------------------------------------------------
(* The inputs the functions are run on.                                    *)

sBuild == <<"b", "u", "i", "l", "d">>
sOutO == <<"o", "u", "t", ".", "o">>
sR == <<"r">>
sLog == <<"l", "o", "g">>
sCache == <<"c", "a", "c", "h", "e">>
sDist == <<"d", "i", "s", "t">>

\* fnmatch_path: every short string, and the examples of the documentation
CandAlphabet == {"a", "/", "\\"}
PatAlphabet == {"a", "/", "\\", "*"}
ExampleCands ==
  { sSrc \o Sep \o <<"c", "a", "t", "a">> \o sLog \o <<".", "t", "x", "t">>,
    sA \o Sep \o sB \o Sep \o sCache,
    sA \o Sep \o sB \o Sep \o sNodeModules \o Sep \o <<"x", ".", "j", "s">> }
ExamplePats == {sLog, StarSlash \o sCache, StarStarSlash \o sNodeModules}
Candidates == SeqsUpTo(CandAlphabet, MaxCandLen) \cup ExampleCands
GlobPatterns == SeqsUpTo(PatAlphabet, MaxPatLen) \cup ExamplePats

\* load_gitignore_patterns: every short file, and the documented example
LineAlphabet == {" ", "#", "d"}
ExampleLines ==
  << <<"#", " ">> \o <<"c", "o", "m", "m", "e", "n", "t">>,
     <<>>,
     sDist \o Sep,
     <<"*", ".", "t", "m", "p">> >>
TabbedLines == << <<"\t", " ", "#", "d">>, <<"\t", "d", " ", "d", "\t">> >>
ConfigFiles ==
  SeqsUpTo(SeqsUpTo(LineAlphabet, MaxLineLen), MaxLines)
    \cup {ExampleLines, TabbedLines}

\* should_ignore: paths of up to MaxDepth components below a prefix, some
\* more that are not normalized, and the roots themselves
Names == {sBuild, DotGit, sOutO}
Prefixes == {Sep \o sR, Sep \o DotGit \o Sep \o sR, <<>>}
ExtraPaths ==
  { Sep \o sR \o Sep \o sGitignore,
    sBuild \o Sep \o sGitignore,
    Sep \o sR \o Sep \o DotGit \o Sep \o ParDir \o Sep \o sBuild,
    Sep \o sR \o Sep \o sBuild \o Sep }
Roots == {Sep \o sR, Sep \o DotGit \o Sep \o sR, sR, DotGit}
Paths ==
  {join(pre, JoinWith(cs, "/")) :
     pre \in Prefixes, cs \in SeqsUpTo(Names, MaxDepth)}
    \cup ExtraPaths \cup Roots
PatternPool == {sBuild \o Sep, sOutO \o Sep, sBuild, <<>>}
PatternLists == SeqsUpTo(PatternPool, MaxPatterns)
Cwds == {[ok |-> TRUE, path |-> Sep \o sR], CwdGone}

\* scan_directory_simple: the .gitignore files of the scanned trees
ScanLinePool == {sNodeModules \o Sep, sA \o Sep, sB, <<"#">> \o sSrc}
ScanConfigFiles == SeqsUpTo(ScanLinePool, MaxLines)
ScanRoots == {Sep \o sR, Sep \o DotGit \o Sep \o sR}

-----------------------------------------------------------------------------
(* The specifications: one per function, the others' variables at rest.    *)

LoadIdle == [done |-> FALSE, value |-> <<>>]

fmIdle ==
  fm_path = <<>> /\ fm_pattern = <<>> /\ fm_result = NoResult

ldIdle ==
  cfg_exists = FALSE /\ cfg_lines = <<>> /\ cfg_failAt = -1
    /\ ld_result = LoadIdle

siIdle ==
  /\ si_path = <<>> /\ si_patterns = <<>> /\ si_root = <<>>
  /\ si_isdir = FALSE /\ si_cwd = CwdGone /\ si_result = NoResult

scIdle ==
  /\ sc_root = <<>> /\ sc_tree = "e2e" /\ sc_pc = "idle"
  /\ sc_patterns = <<>> /\ sc_stack = <<>> /\ sc_visited = {}
  /\ sc_tested = {} /\ sc_ignoredDirs = {} /\ sc_emitted = {}
  /\ sc_headers = {} /\ sc_fileCount = 0 /\ sc_ignoredCount = 0

\* ---- fnmatch_path
InitGlob ==
  /\ fm_path \in Candidates
  /\ fm_pattern \in GlobPatterns
  /\ fm_result = NoResult
  /\ ldIdle /\ siIdle /\ scIdle

FnmatchCall ==
  /\ ~fm_result.done
  /\ fm_result' = [done |-> TRUE, raised |-> FALSE,
                   value |-> fnmatch_path(fm_path, fm_pattern)]
  /\ UNCHANGED <<fm_path, fm_pattern, ldVars, siVars, scVars>>

NextGlob == FnmatchCall

SpecGlob == InitGlob /\ [][NextGlob]_vars

\* ---- load_gitignore_patterns
InitLoad ==
  /\ cfg_exists \in BOOLEAN
  /\ cfg_lines \in ConfigFiles
  /\ ~cfg_exists => cfg_lines = <<>>
  /\ cfg_failAt \in -1..Len(cfg_lines)
  /\ ~cfg_exists => cfg_failAt = -1
  /\ ld_result = LoadIdle
  /\ fmIdle /\ siIdle /\ scIdle

LoadCall ==
  /\ ~ld_result.done
  /\ ld_result' =
       [done |-> TRUE,
        value |-> load_gitignore_patterns(cfg_exists, cfg_lines, cfg_failAt)]
  /\ UNCHANGED <<cfg_exists, cfg_lines, cfg_failAt, fmVars, siVars, scVars>>

NextLoad == LoadCall

SpecLoad == InitLoad /\ [][NextLoad]_vars

\* ---- should_ignore
InitMatch ==
  /\ si_path \in Paths
  /\ si_patterns \in PatternLists
  /\ si_root \in Roots
  /\ si_isdir \in BOOLEAN
  /\ si_cwd \in Cwds
  /\ si_result = NoResult
  /\ fmIdle /\ ldIdle /\ scIdle

ShouldIgnoreCall ==
  /\ ~si_result.done
  /\ si_result' = should_ignore(si_path, si_patterns, si_root, si_isdir,
                                si_cwd)
  /\ UNCHANGED <<si_path, si_patterns, si_root, si_isdir, si_cwd>>
  /\ UNCHANGED <<fmVars, ldVars, scVars>>

NextMatch == ShouldIgnoreCall

SpecMatch == InitMatch /\ [][NextMatch]_vars

\* ---- scan_directory_simple
InitScan ==
  /\ sc_tree \in DOMAIN Trees
  /\ sc_root \in ScanRoots
  /\ cfg_exists = (sGitignore \in Listing(sc_tree, <<>>).files)
  /\ cfg_lines \in ScanConfigFiles
  /\ cfg_failAt \in -1..Len(cfg_lines)
  /\ ld_result = LoadIdle
  /\ sc_pc = "start"
  /\ sc_patterns = <<>> /\ sc_stack = <<>> /\ sc_visited = {}
  /\ sc_tested = {} /\ sc_ignoredDirs = {} /\ sc_emitted = {}
  /\ sc_headers = {} /\ sc_fileCount = 0 /\ sc_ignoredCount = 0
  /\ fmIdle /\ siIdle

NextScan == LoadPatterns \/ ScanDirectory \/ WriteSummary

SpecScan == InitScan /\ [][NextScan]_vars

\* Every function on its own inputs.
Init == InitGlob \/ InitLoad \/ InitMatch \/ InitScan

Next == NextGlob \/ NextLoad \/ NextMatch \/ NextScan

Spec == Init /\ [][Next]_vars

-----------------------------------------------------------------------------
(* The properties, stated in terms of the strings themselves.              *)

\* path has a component equal to ".git": an occurrence of ".git" that is
\* bounded on both sides by a separator or by an end of the string
GitComponent(path) ==
  \E i \in 1..Len(path) :
    /\ i + 3 <= Len(path)
    /\ SubSeq(path, i, i + 3) = DotGit
    /\ (i = 1 \/ path[i - 1] = "/")
    /\ (i + 3 = Len(path) \/ path[i + 4] = "/")

\* the relative-path computation of the call in si_* fails
RelPathFailed == RelPathRaises(si_path, si_root, si_cwd)

\* the relative path of the call in si_*, when the computation succeeds
RelPathOfCall == relpath(si_path, si_root, si_cwd)

BuildSlash == sBuild \o Sep

\* C1 (as stated): should_ignore(rootDir, patterns, rootDir) is false for
\* every root and every pattern list, also for a root inside or named .git.
C1_RootNeverIgnored ==
  (si_result.done /\ si_path = si_root) => ~si_result.value

\* C1 (amended): should_ignore(rootDir, patterns, rootDir) is false for every
\* pattern list when no component of the root's path equals ".git"; for a
\* root with such a component it is true, unless the relative-path
\* computation fails, and then it is false.
C1_RootIgnoredIffGit ==
  (si_result.done /\ si_path = si_root)
    => (si_result.value <=> (GitComponent(si_root) /\ ~RelPathFailed))

C1_Witness ==
  /\ si_result.done /\ si_path = si_root
  /\ ~GitComponent(si_root) /\ ~RelPathFailed
  /\ Len(si_patterns) = MaxPatterns
  /\ ~si_result.value

\* C2 (as stated): a path with a component equal to ".git" is ignored for
\* every pattern list, in every case of the relative-path computation.
C2_GitAlwaysIgnored ==
  (si_result.done /\ GitComponent(si_path)) => si_result.value

\* C2 (amended): a path with a component equal to ".git" is ignored for every
\* pattern list, the empty one included, whenever the relative-path
\* computation succeeds, and is not ignored when that computation fails; a
\* path none of whose components equals ".git" (".gitignore", say) is not
\* ignored under the empty pattern list.
C2_GitIgnoredUnlessRelPathFails ==
  /\ (si_result.done /\ GitComponent(si_path))
       => (si_result.value <=> ~RelPathFailed)
  /\ (si_result.done /\ ~GitComponent(si_path) /\ si_patterns = <<>>)
       => ~si_result.value

C2_Witness ==
  /\ si_result.done /\ GitComponent(si_path) /\ ~RelPathFailed
  /\ si_patterns = <<>> /\ RelPathOfCall # CurDir
  /\ si_result.value

\* the call is one C3 speaks of: the pattern list is ["build/"] and the
\* relative path is "build" or begins with "build/"
C3_Case ==
  /\ si_result.done /\ si_patterns = <<BuildSlash>> /\ ~RelPathFailed
  /\ (RelPathOfCall = sBuild \/ StartsWith(RelPathOfCall, BuildSlash))

\* C3 (as stated): under ["build/"] the directory build is ignored, and so
\* is every path below it, a directory or a regular file.
C3_BuildContentsIgnored ==
  (C3_Case /\ (si_isdir \/ RelPathOfCall # sBuild)) => si_result.value

\* C3 (amended): under ["build/"] the directory build and every directory
\* whose relative path begins with "build/" are ignored; a regular file
\* whose relative path begins with "build/" is not ignored by should_ignore,
\* unless a component of its path equals ".git".
C3_BuildDirectoriesIgnored ==
  C3_Case => (si_result.value <=> (si_isdir \/ GitComponent(si_path)))

C3_Witness ==
  /\ C3_Case /\ si_isdir /\ StartsWith(RelPathOfCall, BuildSlash)
  /\ ~GitComponent(si_path) /\ si_result.value

\* C4: a regular file no component of whose path equals ".git" is not
\* ignored under a pattern list made only of patterns ending in "/".
C4_DirPatternsSpareFiles ==
  ( /\ si_result.done /\ ~si_isdir /\ ~GitComponent(si_path)
    /\ \A k \in 1..Len(si_patterns) :
         si_patterns[k] # <<>> /\ si_patterns[k][Len(si_patterns[k])] = "/" )
    => ~si_result.value

C4_Witness ==
  /\ si_result.done /\ ~si_isdir /\ ~RelPathFailed
  /\ RelPathOfCall = sBuild /\ si_patterns = <<BuildSlash>>
  /\ ~si_result.value

\* C7: should_ignore never raises, and returns false whenever the
\* relative-path computation fails.
C7_NeverRaisesFailOpen ==
  si_result.done =>
    (~si_result.raised /\ (RelPathFailed => ~si_result.value))

C7_Witness ==
  /\ si_result.done /\ RelPathFailed /\ si_patterns # <<>>
  /\ ~si_result.raised /\ ~si_result.value

\* a line holds a character that is not whitespace
NotBlank(line) == \E i \in 1..Len(line) : line[i] \notin Whitespace

\* the positions of the first and last characters that are not whitespace
FirstInk(line) ==
  CHOOSE i \in 1..Len(line) :
    line[i] \notin Whitespace /\ \A j \in 1..(i - 1) : line[j] \in Whitespace

LastInk(line) ==
  CHOOSE i \in 1..Len(line) :
    /\ line[i] \notin Whitespace
    /\ \A j \in (i + 1)..Len(line) : line[j] \in Whitespace

\* a line that is kept: not blank, first non-whitespace character not "#"
IsPatternLine(line) == NotBlank(line) /\ line[FirstInk(line)] # "#"

\* the kept lines, in order, each without its surrounding whitespace
KeptLines(lines) ==
  LET kept == SelectSeq(lines, IsPatternLine)
  IN  [k \in 1..Len(kept) |->
         SubSeq(kept[k], FirstInk(kept[k]), LastInk(kept[k]))]

\* C8: on a read failure of .gitignore, also one after some lines were
\* read, load_gitignore_patterns returns the empty list.
C8_EmptyOnReadFailure ==
  (ld_result.done /\ cfg_exists /\ cfg_failAt >= 0) => ld_result.value = <<>>

\* C9: when .gitignore is read to its end, load_gitignore_patterns returns
\* exactly the kept lines, stripped, in their order.
C9_LoadKeepsPatternLines ==
  (ld_result.done /\ cfg_exists /\ cfg_failAt = -1)
    => ld_result.value = KeptLines(cfg_lines)

C9_Witness ==
  /\ ld_result.done /\ cfg_exists /\ cfg_failAt = -1
  /\ cfg_lines = ExampleLines
  /\ ld_result.value = <<sDist \o Sep, <<"*", ".", "t", "m", "p">> >>

\* candidate = before \o piece \o after, for some before and after
Occurs(piece, candidate) ==
  \E i \in 0..Len(candidate) : \E j \in i..Len(candidate) :
    [k \in 1..(j - i) |-> candidate[i + k]] = piece

\* candidate = before \o piece, for some before
IsSuffix(piece, candidate) ==
  \E i \in 0..Len(candidate) :
    [k \in 1..(Len(candidate) - i) |-> candidate[i + k]] = piece

Slashed(str) == [k \in 1..Len(str) |-> IF str[k] = "\\" THEN "/" ELSE str[k]]

\* what C10 says fnmatch_path returns
C10_Expected(candidate0, pattern0) ==
  LET candidate == Slashed(candidate0)
      pattern == Slashed(pattern0)
      n == Len(pattern)
      rest2 == [k \in 1..(n - 2) |-> pattern[k + 2]]
      rest3 == [k \in 1..(n - 3) |-> pattern[k + 3]]
  IN  IF n >= 2 /\ pattern[1] = "*" /\ pattern[2] = "/"
      THEN IsSuffix(rest2, candidate) \/ Occurs(rest2, candidate)
      ELSE IF n >= 3 /\ pattern[1] = "*" /\ pattern[2] = "*"
                /\ pattern[3] = "/"
      THEN Occurs(rest3, candidate)
      ELSE \/ candidate = pattern
           \/ IsSuffix(<<"/">> \o pattern, candidate)
           \/ Occurs(pattern, candidate)

\* C10: fnmatch_path returns what its three cases say, for every candidate
\* and pattern.
C10_FnmatchCases ==
  fm_result.done => (fm_result.value <=> C10_Expected(fm_path, fm_pattern))

C10_Witness ==
  /\ fm_result.done /\ fm_result.value
  /\ fm_pattern = sLog
  /\ fm_path \in ExampleCands /\ ~IsSuffix(sLog, fm_path)

\* the scan is the end-to-end scenario: the tree of the scenario, with a
\* .gitignore of the single line "node_modules/"
C5_Scenario ==
  sc_pc = "done" /\ sc_tree = "e2e" /\ cfg_lines = <<sNodeModules \o Sep>>

\* C5 (as stated): the scan of the scenario emits src/app.txt and no other
\* file (here with .gitignore read without error, under a root no component
\* of whose path equals ".git").
C5_OnlyAppTxtEmitted ==
  (C5_Scenario /\ cfg_failAt = -1 /\ ~GitComponent(sc_root))
    => sc_emitted = {join(join(sc_root, sSrc), sAppTxt)}

\* C5 (amended): when .gitignore is read without error and no component of
\* the root's path equals ".git", the scan of the scenario emits exactly
\* .gitignore and src/app.txt: node_modules/pkg.json and .git/HEAD are not
\* emitted, the .gitignore file itself is.
C5_GitignoreAndAppTxtEmitted ==
  (C5_Scenario /\ cfg_failAt = -1 /\ ~GitComponent(sc_root))
    => /\ sc_emitted = { join(sc_root, sGitignore),
                         join(join(sc_root, sSrc), sAppTxt) }
       /\ sc_fileCount = 2

C5_Witness ==
  /\ C5_Scenario /\ cfg_failAt = -1 /\ ~GitComponent(sc_root)
  /\ join(join(sc_root, sSrc), sAppTxt) \in sc_emitted
  /\ join(sc_root, sNodeModules) \in sc_ignoredDirs
  /\ join(sc_root, DotGit) \in sc_ignoredDirs

\* path lies beneath the directory dir
Beneath(path, dir) == StartsWith(path, dir \o Sep)

\* C6: nothing beneath a directory found ignored is visited, tested with
\* should_ignore, counted, written to the report or left to be descended
\* into, in any state of the traversal.
C6_IgnoredDirsPruned ==
  /\ \A dir \in sc_ignoredDirs :
       /\ \A path \in sc_visited \cup sc_tested \cup sc_emitted :
            ~Beneath(path, dir)
       /\ \A h \in sc_headers : ~Beneath(join(sc_root, h), dir)
       /\ \A k \in 1..Len(sc_stack) :
            sc_stack[k].path # dir /\ ~Beneath(sc_stack[k].path, dir)
       /\ dir \notin sc_visited
  /\ sc_fileCount = Cardinality(sc_emitted)
  /\ sc_fileCount + sc_ignoredCount <= Cardinality(sc_tested)

C6_Witness ==
  /\ sc_pc = "done" /\ sc_tree = "nested"
  /\ join(sc_root, sA) \in sc_ignoredDirs
  /\ join(sc_root, sSrc) \in sc_visited
  /\ sc_emitted # {}

====
